---------------------------- MODULE Spec2Model ----------------------------
(***************************************************************************)
(* plot_qfunc (src/husimi_q.py): draw the Husimi Q-function of a state as  *)
(* a filled contour ('2d') or a surface ('3d') on a matplotlib canvas.     *)
(*                                                                         *)
(* The world is the set of matplotlib figures and axes that exist; a call  *)
(* of plot_qfunc walks through the statements of the function, one action  *)
(* per block of statements, and ends either by returning (fig, ax) or by   *)
(* raising.  No canvas exists at the start; the caller may hand any       *)
(* figure / axes an earlier call returned, or None, to a later call.       *)
(***************************************************************************)
EXTENDS Integers, Sequences, FiniteSets, TLC

VARIABLES
    figs,     \* sequence of the figures that exist; a figure's handle is its index
    axes,     \* sequence of the axes that exist; an axes' handle is its index
    pc,       \* position of the running call, "idle" between calls
    args,     \* the arguments of the current (or last) call, as passed
    frame,    \* the local variables of the current (or last) call
    pre,      \* figs and axes as they were when the current call was entered
    trace,    \* the rendering calls the current call has completed, in order
    outcome,  \* how the last call ended: returned (fig, ax) or raised
    ncalls    \* number of calls started

vars == <<figs, axes, pc, args, frame, pre, trace, outcome, ncalls>>

----------------------------------------------------------------------------
(* Bounds of the model *)

MaxCalls == 2      \* calls of plot_qfunc in one behaviour

----------------------------------------------------------------------------
(* Values *)

None == 0                         \* Python None, as a figure / axes handle
NoCmap == "None"                  \* cmap=None
GridPoints == 200                 \* np.linspace(..., 200)
ContourLevels == 100              \* contourf(..., 100, ...)
Stride == 5                       \* rstride=5, cstride=5

Projections == {"2d", "3d", "1d", ""}
FigSizes == {<<8, 4>>}
CMaps == {NoCmap, "viridis"}
AlphaMaxes == {7}
StateKinds == {"ket", "oper"}
\* Q-function arrays (flattened, and far shorter than 200 x 200)
QArrays == {<<1, 0>>, <<1, -2>>}

NoGrid == [id |-> "none", lo |-> 0, hi |-> 0, n |-> 0]
NoValue == [tag |-> "none", data |-> <<>>, y |-> NoGrid]
NoArtist == [ax |-> None, idx |-> 0]

\* a numpy array, and the tuple (array, y-grid)
NdArray(a) == [tag |-> "ndarray", data |-> a, y |-> NoGrid]
Pair(a, g) == [tag |-> "tuple", data |-> a, y |-> g]

----------------------------------------------------------------------------
(* The collaborators *)

\* truth value of a handle: None is false, a Figure / Axes object is true
Truthy(h) == h # None

\* qutip.isket, qutip.ket2dm
isket(rho) == rho = "ket"
ket2dm(rho) == "oper"

\* np.linspace(-alpha_max, alpha_max, 200): a fresh array object
linspace(lo, hi, n) == [id |-> "xvec", lo |-> lo, hi |-> hi, n |-> n]

\* a y-grid the evaluator may hand back: another array object
AltGrid(xvec) == [id |-> "yvec", lo |-> xvec.lo - 1, hi |-> xvec.hi + 1, n |-> xvec.n]

\* what qfunc(rho, xvec, xvec) may return: a 2D array, or (2D array, y-grid)
QfuncResults(xvec) ==
    {NdArray(a) : a \in QArrays} \cup {Pair(a, AltGrid(xvec)) : a \in QArrays}

Abs(x) == IF x < 0 THEN -x ELSE x

RECURSIVE SeqMax(_)
SeqMax(s) ==
    IF Len(s) = 1 THEN s[1]
    ELSE LET m == SeqMax(Tail(s)) IN IF s[1] > m THEN s[1] ELSE m

\* abs(Q): elementwise
AbsArray(a) == [i \in 1..Len(a) |-> Abs(a[i])]

\* mpl.colors.Normalize(vmin, vmax)
Normalize(vmin, vmax) == [vmin |-> vmin, vmax |-> vmax]

\* cm.get_cmap('RdBu')
get_cmap(name) == name

\* plt.subplots / plt.figure / fig.add_subplot
NewFigure(figsize) == [figsize |-> figsize, colorbars |-> <<>>]
NewAxes(f, projection) ==
    [fig |-> f, projection |-> projection, artists |-> <<>>,
     xlabel |-> "", ylabel |-> "", title |-> "", ylim |-> <<>>]

----------------------------------------------------------------------------
(* Decisions of plot_qfunc *)

\* line 50: if not fig and not ax
\*   variants the properties must tell apart: creation not guarded at all, and
\*   creation when either handle is missing (if not fig or not ax)
NeedsCreateAlways(fig, ax) == TRUE
NeedsCreateEither(fig, ax) == ~Truthy(fig) \/ ~Truthy(ax)
NeedsCreate(fig, ax) == ~Truthy(fig) /\ ~Truthy(ax)

\* lines 51-57: the projection of the axes to create, "raise" for the else branch
\*   variants: a plain else for the 3D branch (no rejection), and add_subplot
\*   without projection='3d'
CreatedProjectionElse3d(projection) ==
    IF projection = "2d" THEN "rectilinear" ELSE "3d"
CreatedProjectionFlat(projection) ==
    IF projection \in {"2d", "3d"} THEN "rectilinear" ELSE "raise"
CreatedProjection(projection) ==
    IF projection = "2d" THEN "rectilinear"
    ELSE IF projection = "3d" THEN "3d"
    ELSE "raise"

\* line 65: Q, yvec = Q0 if type(Q0) is tuple else (Q0, xvec)
UnpackQ(Q0, xvec) == IF Q0.tag = "tuple" THEN NdArray(Q0.data) ELSE Q0
UnpackY(Q0, xvec) == IF Q0.tag = "tuple" THEN Q0.y ELSE xvec

\* line 67: qlim = abs(Q).max()
\*   variant: Q.max(), without abs
ColorLimitNoAbs(Q) == SeqMax(Q.data)
ColorLimit(Q) == SeqMax(AbsArray(Q.data))

\* lines 69-70: if cmap is None: cmap = cm.get_cmap('RdBu')
ResolveCmap(cmap) == IF cmap = NoCmap THEN get_cmap("RdBu") ELSE cmap

\* lines 72-80: which draw method the projection selects
\*   variants: the two branches swapped, and contourf in both branches
DrawMethodSwapped(projection) ==
    IF projection = "2d" THEN "plot_surface"
    ELSE IF projection = "3d" THEN "contourf"
    ELSE "raise"
DrawMethodAllContour(projection) ==
    IF projection \in {"2d", "3d"} THEN "contourf" ELSE "raise"
DrawMethod(projection) ==
    IF projection = "2d" THEN "contourf"
    ELSE IF projection = "3d" THEN "plot_surface"
    ELSE "raise"

\* lines 73, 77: the data argument of the draw call
ContourData(Q0, Q) == Q
SurfaceData(Q0, Q) == Q0

\* lines 74, 78: norm=mpl.colors.Normalize(-qlim, qlim)
DrawNorm(qlim) == Normalize(-qlim, qlim)

\* line 82: if xvec is not yvec (object identity)
IsNot(a, b) == a.id # b.id

\* line 91
\*   variant: the title of the Wigner plot this function was derived from
TitleOther == "Wigner function"
TitleText == "Husimi Q-function"
XLabelText == "$\\rm{Re}(\\alpha)$"
YLabelText == "$\\rm{Im}(\\alpha)$"

\* line 93: return fig, ax
ReturnValue(fig, ax) == <<fig, ax>>

----------------------------------------------------------------------------
(* The rendering library *)

\* Axes.contourf exists on 2D and on 3D axes; it adds one filled-contour set
ContourSet(x, y, Z, levels, norm, cmap) ==
    [kind |-> "contourf", Z |-> Z, norm |-> norm, cmap |-> cmap]

\* Axes3D.plot_surface adds one surface
Surface(Z, stride, norm, cmap) ==
    [kind |-> "surface", Z |-> Z, norm |-> norm, cmap |-> cmap]

\* only 3D-projected axes have plot_surface
HasPlotSurface(a) == axes[a].projection = "3d"

\* plot_surface rejects a Z that is not a 2D array
SurfaceAccepts(Z) == Z.tag = "ndarray"

----------------------------------------------------------------------------
(* State *)

NoOutcome == [kind |-> "none", fig |-> None, ax |-> None, error |-> "", line |-> 0]
Returned(rv) == [kind |-> "returned", fig |-> rv[1], ax |-> rv[2], error |-> "", line |-> 0]
Raised(e, l) == [kind |-> "raised", fig |-> None, ax |-> None, error |-> e, line |-> l]

NoArgs ==
    [rho |-> "oper", fig |-> None, ax |-> None, figsize |-> <<6, 6>>, cmap |-> NoCmap,
     alpha_max |-> 7, colorbar |-> FALSE, projection |-> "2d"]

EntryFrame(a) ==
    [fig |-> a.fig, ax |-> a.ax, rho |-> a.rho, cmap |-> a.cmap,
     xvec |-> NoGrid, yvec |-> NoGrid, Q0 |-> NoValue, Q |-> NoValue,
     qlim |-> 0, cf |-> NoArtist, Z |-> NoValue]

\* no canvas exists yet; the canvases handed to a call are those earlier calls returned
Init ==
    /\ figs = <<>>
    /\ axes = <<>>
    /\ pc = "idle"
    /\ args = NoArgs
    /\ frame = EntryFrame(NoArgs)
    /\ pre = [figs |-> figs, axes |-> axes]
    /\ trace = <<>>
    /\ outcome = NoOutcome
    /\ ncalls = 0

Raise(e, l) ==
    /\ pc' = "idle"
    /\ outcome' = Raised(e, l)

----------------------------------------------------------------------------
(* plot_qfunc, statement by statement *)

\* line 4: the call, with every argument the caller may pass
Call ==
    /\ pc = "idle"
    /\ ncalls < MaxCalls
    /\ \E rho \in StateKinds, f \in {None} \cup (1..Len(figs)),
          a \in {None} \cup (1..Len(axes)), figsize \in FigSizes, cmap \in CMaps,
          alpha_max \in AlphaMaxes, colorbar \in BOOLEAN, projection \in Projections :
            /\ args' = [rho |-> rho, fig |-> f, ax |-> a, figsize |-> figsize,
                        cmap |-> cmap, alpha_max |-> alpha_max, colorbar |-> colorbar,
                        projection |-> projection]
            /\ frame' = EntryFrame(args')
    /\ pre' = [figs |-> figs, axes |-> axes]
    /\ trace' = <<>>
    /\ outcome' = NoOutcome
    /\ ncalls' = ncalls + 1
    /\ pc' = "create"
    /\ UNCHANGED <<figs, axes>>

\* lines 50-57
CreateCanvas ==
    /\ pc = "create"
    /\ IF NeedsCreate(frame.fig, frame.ax)
       THEN LET p == CreatedProjection(args.projection)
                f == Len(figs) + 1
                a == Len(axes) + 1
            IN IF p = "raise"
               THEN /\ Raise("ValueError", 57)
                    /\ UNCHANGED <<figs, axes, frame>>
               ELSE /\ figs' = Append(figs, NewFigure(args.figsize))
                    /\ axes' = Append(axes, NewAxes(f, p))
                    /\ frame' = [frame EXCEPT !.fig = f, !.ax = a]
                    /\ pc' = "eval"
                    /\ UNCHANGED outcome
       ELSE /\ pc' = "eval"
            /\ UNCHANGED <<figs, axes, frame, outcome>>
    /\ UNCHANGED <<args, pre, trace, ncalls>>

\* lines 59-70
Evaluate ==
    /\ pc = "eval"
    /\ LET rho == IF isket(frame.rho) THEN ket2dm(frame.rho) ELSE frame.rho
           xvec == linspace(-args.alpha_max, args.alpha_max, GridPoints)
       IN \E Q0 \in QfuncResults(xvec) :
            LET Q == UnpackQ(Q0, xvec)
                yvec == UnpackY(Q0, xvec)
            IN frame' = [frame EXCEPT !.rho = rho, !.xvec = xvec, !.Q0 = Q0,
                                      !.Q = Q, !.yvec = yvec, !.qlim = ColorLimit(Q),
                                      !.cmap = ResolveCmap(frame.cmap)]
    /\ pc' = "draw"
    /\ UNCHANGED <<figs, axes, args, pre, trace, outcome, ncalls>>

AddArtist(a, art) ==
    /\ axes' = [axes EXCEPT ![a].artists = Append(@, art)]
    /\ frame' = [frame EXCEPT !.cf = [ax |-> a, idx |-> Len(axes[a].artists) + 1],
                              !.Z = art.Z]
    /\ trace' = Append(trace, art.kind)
    /\ pc' = "ylim"
    /\ UNCHANGED outcome

\* lines 72-80
Draw ==
    /\ pc = "draw"
    /\ LET m == DrawMethod(args.projection)
           a == frame.ax
       IN IF m = "contourf"
          THEN IF a = None
               THEN /\ Raise("AttributeError", 73)
                    /\ UNCHANGED <<axes, frame, trace>>
               ELSE AddArtist(a, ContourSet(frame.xvec, frame.yvec,
                                            ContourData(frame.Q0, frame.Q), ContourLevels,
                                            DrawNorm(frame.qlim), frame.cmap))
          ELSE IF m = "plot_surface"
          THEN IF a = None \/ ~HasPlotSurface(a)
               THEN /\ Raise("AttributeError", 77)
                    /\ UNCHANGED <<axes, frame, trace>>
               ELSE LET Z == SurfaceData(frame.Q0, frame.Q)
                    IN IF SurfaceAccepts(Z)
                       THEN AddArtist(a, Surface(Z, Stride, DrawNorm(frame.qlim),
                                                 frame.cmap))
                       ELSE /\ Raise("ValueError", 77)
                            /\ frame' = [frame EXCEPT !.Z = Z]
                            /\ UNCHANGED <<axes, trace>>
          ELSE /\ Raise("ValueError", 80)
               /\ UNCHANGED <<axes, frame, trace>>
    /\ UNCHANGED <<figs, args, pre, ncalls>>

\* lines 82-83
SetYLim ==
    /\ pc = "ylim"
    /\ IF IsNot(frame.xvec, frame.yvec)
       THEN /\ axes' = [axes EXCEPT ![frame.ax].ylim = <<frame.xvec.lo, frame.xvec.hi>>]
            /\ trace' = Append(trace, "set_ylim")
       ELSE UNCHANGED <<axes, trace>>
    /\ pc' = "labels"
    /\ UNCHANGED <<figs, args, frame, pre, outcome, ncalls>>

\* lines 85-86
SetLabels ==
    /\ pc = "labels"
    /\ axes' = [axes EXCEPT ![frame.ax].xlabel = XLabelText,
                            ![frame.ax].ylabel = YLabelText]
    /\ trace' = trace \o <<"set_xlabel", "set_ylabel">>
    /\ pc' = "colorbar"
    /\ UNCHANGED <<figs, args, frame, pre, outcome, ncalls>>

\* lines 88-89
Colorbar ==
    /\ pc = "colorbar"
    /\ IF args.colorbar
       THEN IF frame.fig = None
            THEN /\ Raise("AttributeError", 89)
                 /\ UNCHANGED <<figs, trace>>
            ELSE /\ figs' = [figs EXCEPT ![frame.fig].colorbars =
                                Append(@, [mappable |-> frame.cf, ax |-> frame.ax])]
                 /\ trace' = Append(trace, "colorbar")
                 /\ pc' = "title"
                 /\ UNCHANGED outcome
       ELSE /\ pc' = "title"
            /\ UNCHANGED <<figs, trace, outcome>>
    /\ UNCHANGED <<axes, args, frame, pre, ncalls>>

\* line 91
SetTitle ==
    /\ pc = "title"
    /\ axes' = [axes EXCEPT ![frame.ax].title = TitleText]
    /\ trace' = Append(trace, "set_title")
    /\ pc' = "return"
    /\ UNCHANGED <<figs, args, frame, pre, outcome, ncalls>>

\* line 93
Return ==
    /\ pc = "return"
    /\ outcome' = Returned(ReturnValue(frame.fig, frame.ax))
    /\ pc' = "idle"
    /\ UNCHANGED <<figs, axes, args, frame, pre, trace, ncalls>>

Next ==
    \/ Call
    \/ CreateCanvas
    \/ Evaluate
    \/ Draw
    \/ SetYLim
    \/ SetLabels
    \/ Colorbar
    \/ SetTitle
    \/ Return

Spec == Init /\ [][Next]_vars

----------------------------------------------------------------------------
(* Properties *)

ValidProjection(p) == p \in {"2d", "3d"}

Started == ncalls > 0
HasReturned == pc = "idle" /\ outcome.kind = "returned"
HasRaised == pc = "idle" /\ outcome.kind = "raised"

BothSupplied == args.fig # None /\ args.ax # None
NeitherSupplied == args.fig = None /\ args.ax = None

\* the artifacts an axes held when the current call was entered
ArtistsAtEntry(a) == IF a <= Len(pre.axes) THEN pre.axes[a].artists ELSE <<>>

CountKind(arts, kind) == Cardinality({i \in 1..Len(arts) : arts[i].kind = kind})

\* the largest absolute value of an array, computed from its definition
MaxAbsOf(a) ==
    CHOOSE m \in {Abs(a[i]) : i \in 1..Len(a)} : \A i \in 1..Len(a) : Abs(a[i]) <= m

\* the call left the axes it was handed as they were, and any axes it made blank
NoDrawingMutation ==
    /\ \A a \in 1..Len(axes) :
          IF a <= Len(pre.axes) THEN axes[a] = pre.axes[a]
          ELSE axes[a] = NewAxes(axes[a].fig, axes[a].projection)
    /\ \A f \in 1..Len(figs) :
          figs[f].colorbars = IF f <= Len(pre.figs) THEN pre.figs[f].colorbars ELSE <<>>

\* C1: a call with a projection other than '2d' and '3d' ends by raising
\* ValueError, whatever fig and ax were passed; up to and at that moment it has
\* drawn nothing on any axes and has created no canvas and no axes.
C1_InvalidProjectionRejected ==
    (Started /\ ~ValidProjection(args.projection)) =>
        /\ figs = pre.figs
        /\ axes = pre.axes
        /\ trace = <<>>
        /\ pc \in {"idle", "create", "eval", "draw"}
        /\ pc = "idle" => (outcome.kind = "raised" /\ outcome.error = "ValueError")

\* a call with both handles supplied, on an axes already drawn on, was rejected
\* by the check of the draw path
C1_Witness ==
    /\ HasRaised
    /\ ~ValidProjection(args.projection)
    /\ BothSupplied
    /\ outcome.line = 80
    /\ Len(axes[args.ax].artists) > 0

\* C2: a call given both a canvas and an axes creates no canvas and no axes, and
\* when it returns it returns exactly the two handles it was given.
C2_SuppliedPairReturned ==
    (Started /\ BothSupplied) =>
        /\ Len(figs) = Len(pre.figs)
        /\ Len(axes) = Len(pre.axes)
        /\ outcome.kind = "returned" =>
              (outcome.fig = args.fig /\ outcome.ax = args.ax)

C2_Witness ==
    /\ HasReturned
    /\ BothSupplied
    /\ args.projection = "3d"
    /\ args.colorbar

\* C3: a call given neither canvas nor axes, with projection '2d' or '3d', has
\* after its creation step made exactly one canvas, of size figsize, holding
\* exactly one axes whose projection is the requested one (2D for '2d', 3D for
\* '3d'); it uses that pair, and returns it when it returns.
C3_FreshCanvasCreated ==
    (Started /\ NeitherSupplied /\ ValidProjection(args.projection) /\ pc # "create") =>
        LET f == Len(pre.figs) + 1
            a == Len(pre.axes) + 1
        IN /\ Len(figs) = f
           /\ Len(axes) = a
           /\ SubSeq(figs, 1, f - 1) = pre.figs
           /\ SubSeq(axes, 1, a - 1) = pre.axes
           /\ figs[f].figsize = args.figsize
           /\ {b \in 1..Len(axes) : axes[b].fig = f} = {a}
           /\ axes[a].projection = (IF args.projection = "2d" THEN "rectilinear" ELSE "3d")
           /\ frame.fig = f /\ frame.ax = a
           /\ outcome.kind = "returned" => (outcome.fig = f /\ outcome.ax = a)

\* a second call created and returned a 3D canvas next to the first call's canvas
C3_Witness ==
    /\ HasReturned
    /\ NeitherSupplied
    /\ args.projection = "3d"
    /\ Len(pre.figs) > 0
    /\ outcome.fig = Len(figs)

\* C4 as stated: after a '2d' call returns, the returned axes holds exactly one
\* filled contour and no surface, whether the axes was created or supplied.
C4_ExactlyOneContour ==
    (HasReturned /\ args.projection = "2d") =>
        /\ CountKind(axes[outcome.ax].artists, "contourf") = 1
        /\ CountKind(axes[outcome.ax].artists, "surface") = 0

\* C4 amended: a '2d' call that returns has added exactly one filled contour
\* and no surface to the returned axes, after the artifacts the axes already
\* held, and has added nothing to any other axes; a freshly created axes so
\* holds exactly one filled contour and no surface.
C4_OneContourAdded ==
    (HasReturned /\ args.projection = "2d") =>
        LET a == outcome.ax
            arts == axes[a].artists
        IN /\ Len(arts) = Len(ArtistsAtEntry(a)) + 1
           /\ SubSeq(arts, 1, Len(arts) - 1) = ArtistsAtEntry(a)
           /\ arts[Len(arts)].kind = "contourf"
           /\ \A b \in 1..Len(pre.axes) : b # a => axes[b].artists = pre.axes[b].artists
           /\ NeitherSupplied =>
                 /\ CountKind(arts, "contourf") = 1
                 /\ CountKind(arts, "surface") = 0

\* a '2d' call drew on a supplied axes that an earlier call had drawn on
C4_Witness ==
    /\ HasReturned
    /\ args.projection = "2d"
    /\ args.ax # None
    /\ Len(pre.axes[args.ax].artists) > 0
    /\ Len(axes[args.ax].artists) = 2

\* C5 as stated: after a '3d' call returns, the returned axes is 3D-projected
\* and holds exactly one surface, whether the axes was created or supplied.
C5_ExactlyOneSurface ==
    (HasReturned /\ args.projection = "3d") =>
        /\ axes[outcome.ax].projection = "3d"
        /\ CountKind(axes[outcome.ax].artists, "surface") = 1

\* C5 amended: a '3d' call that returns returns a 3D-projected axes to which it
\* has added exactly one surface, after the artifacts the axes already held,
\* and has added nothing to any other axes; a freshly created axes so holds
\* exactly one surface and nothing else.
C5_OneSurfaceAdded ==
    (HasReturned /\ args.projection = "3d") =>
        LET a == outcome.ax
            arts == axes[a].artists
        IN /\ axes[a].projection = "3d"
           /\ Len(arts) = Len(ArtistsAtEntry(a)) + 1
           /\ SubSeq(arts, 1, Len(arts) - 1) = ArtistsAtEntry(a)
           /\ arts[Len(arts)].kind = "surface"
           /\ \A b \in 1..Len(pre.axes) : b # a => axes[b].artists = pre.axes[b].artists
           /\ NeitherSupplied =>
                 /\ CountKind(arts, "surface") = 1
                 /\ Len(arts) = 1

\* a '3d' call drew a second surface on a supplied 3D axes
C5_Witness ==
    /\ HasReturned
    /\ args.projection = "3d"
    /\ args.ax # None
    /\ CountKind(axes[args.ax].artists, "surface") = 2

\* C6: when a call returns, the title of the returned axes is "Husimi
\* Q-function", and setting it was the last rendering call: the contour or
\* surface, and the colorbar when one was requested, were added before it.
C6_TitleSetLast ==
    HasReturned =>
        /\ axes[outcome.ax].title = "Husimi Q-function"
        /\ Len(trace) >= 2
        /\ trace[Len(trace)] = "set_title"
        /\ \E i \in 1..(Len(trace) - 1) : trace[i] \in {"contourf", "surface"}
        /\ args.colorbar => \E i \in 1..(Len(trace) - 1) : trace[i] = "colorbar"
        /\ \A i \in 1..(Len(trace) - 1) : trace[i] # "set_title"

\* a call on a supplied, already titled pair, with a colorbar and its own cmap
C6_Witness ==
    /\ HasReturned
    /\ BothSupplied
    /\ args.colorbar
    /\ args.cmap # NoCmap
    /\ args.projection = "3d"
    /\ pre.axes[args.ax].title # ""

\* C7: once the evaluator has answered, the color bound is the largest absolute
\* value of the array it returned and stays so; the contour or surface the call
\* draws is normalized to [-bound, +bound]; and the colorbar the call adds is
\* bound to that drawn artifact, so it shows the same normalization.
C7_SymmetricSharedNorm ==
    (Started /\ frame.Q0 # NoValue) =>
        LET m == MaxAbsOf(frame.Q0.data)
        IN /\ frame.qlim = m
           /\ frame.cf # NoArtist =>
                 axes[frame.cf.ax].artists[frame.cf.idx].norm = [vmin |-> -m, vmax |-> m]
           /\ (\E i \in 1..Len(trace) : trace[i] = "colorbar") =>
                 LET bars == figs[frame.fig].colorbars
                     bar == bars[Len(bars)]
                 IN /\ bar.mappable = frame.cf
                    /\ bar.ax = frame.ax
                    /\ axes[bar.mappable.ax].artists[bar.mappable.idx].norm
                          = [vmin |-> -m, vmax |-> m]
           /\ (HasReturned /\ args.colorbar) =>
                 \E i \in 1..Len(trace) : trace[i] = "colorbar"

\* a returned call with a colorbar whose array has its largest magnitude at a
\* negative entry
C7_Witness ==
    /\ HasReturned
    /\ args.colorbar
    /\ frame.Q0 = NdArray(<<1, -2>>)
    /\ frame.qlim = 2
    /\ args.projection = "3d"

\* C8: a call that has ended either returned a canvas and an axes, neither of
\* them absent, with the plot, the labels and the title drawn, or raised
\* without having drawn anything on any axes.
C8_NoPartialFailure ==
    (Started /\ pc = "idle") =>
        \/ /\ outcome.kind = "returned"
           /\ outcome.fig # None
           /\ outcome.ax # None
           /\ Len(axes[outcome.ax].artists) = Len(ArtistsAtEntry(outcome.ax)) + 1
           /\ axes[outcome.ax].xlabel = XLabelText
           /\ axes[outcome.ax].ylabel = YLabelText
           /\ axes[outcome.ax].title = TitleText
        \/ /\ outcome.kind = "raised"
           /\ NoDrawingMutation

\* C9: what the evaluator returned is normalized to one array and a y-grid,
\* and the data handed to the draw call, in both modes, is that array.
C9_DrawnFromNormalizedArray ==
    /\ (Started /\ frame.Q0 # NoValue) =>
          /\ frame.Q = NdArray(frame.Q0.data)
          /\ frame.yvec = (IF frame.Q0.tag = "tuple" THEN frame.Q0.y ELSE frame.xvec)
    /\ (Started /\ frame.Z # NoValue) => frame.Z = frame.Q

=============================================================================
